---- MODULE Spec2Model ----
(***************************************************************************)
(* docker_query.py: which tags of a registry repository are stable         *)
(* releases newer than a baseline tag.                                     *)
(*                                                                         *)
(* A Python str is modelled as the sequence of its characters, each a      *)
(* one-character string, so that lower(), split(), lstrip(), the regular   *)
(* expressions and the str comparison are computed character by character. *)
(* Tag names are drawn from the characters a registry allows in a tag      *)
(* name, [A-Za-z0-9_.-].                                                   *)
(***************************************************************************)
EXTENDS Integers, Sequences, FiniteSets, TLC

VARIABLES
    pc,          \* where the run is: start, request, yield, done, failed; call, built, ret
    binding,     \* the line of the def the name is_stable_kubernetes_tag is bound to
    repo,        \* the tag names the registry repository holds
    base_tag,    \* find_newer_tags: its base_tag argument
    base,        \* find_newer_tags: DockerVersion(base_tag), once constructed
    page,        \* get_tags: page
    data,        \* get_tags: the response of the last request (results, next)
    idx,         \* get_tags: the position in data.results of the next name to yield
    requests,    \* the page numbers requested from the registry, in order
    served,      \* the responses the registry gave, in order
    yielded,     \* the names get_tags yielded, in order
    newer_tags,  \* find_newer_tags: newer_tags
    result,      \* find_newer_tags: the list returned
    err,         \* the exception that ended the run, or "none"
    fn,          \* a unit called on its own: which one
    args,        \* ... its arguments
    ret          \* ... what it returned

vars == <<pc, binding, repo, base_tag, base, page, data, idx, requests, served,
          yielded, newer_tags, result, err, fn, args, ret>>

----------------------------------------------------------------------------
(* Characters and str operations.                                          *)

Digits == <<"0", "1", "2", "3", "4", "5", "6", "7", "8", "9">>

AsciiLower == <<"a", "b", "c", "d", "e", "f", "g", "h", "i", "j", "k", "l", "m",
                "n", "o", "p", "q", "r", "s", "t", "u", "v", "w", "x", "y", "z">>

AsciiUpper == <<"A", "B", "C", "D", "E", "F", "G", "H", "I", "J", "K", "L", "M",
                "N", "O", "P", "Q", "R", "S", "T", "U", "V", "W", "X", "Y", "Z">>

\* The characters of a tag name in code point order: str < compares these.
CodePoints == <<"-", ".">> \o Digits \o AsciiUpper \o <<"_">> \o AsciiLower

Has(seq, c) == \E i \in 1..Len(seq) : seq[i] = c

IndexOf(seq, c) == CHOOSE i \in 1..Len(seq) : seq[i] = c

\* \d of the regular expressions, on the tag characters.
IsDigit(c) == Has(Digits, c)

\* [a-z] of _VERSION_SUFFIX.
IsLower(c) == Has(AsciiLower, c)

ord(c) == IndexOf(CodePoints, c)

\* str.lower()
lower(s) ==
    [i \in 1..Len(s) |-> IF Has(AsciiUpper, s[i])
                         THEN AsciiLower[IndexOf(AsciiUpper, s[i])]
                         ELSE s[i]]

\* int() of a run of digits.
RECURSIVE int(_)
int(ds) ==
    IF ds = <<>> THEN 0
    ELSE 10 * int(SubSeq(ds, 1, Len(ds) - 1)) + (IndexOf(Digits, ds[Len(ds)]) - 1)

\* s[p:].startswith(w)
StartsWithAt(s, p, w) ==
    /\ p >= 1
    /\ p + Len(w) - 1 <= Len(s)
    /\ SubSeq(s, p, p + Len(w) - 1) = w

\* w in s
Contains(s, w) == \E p \in 1..(Len(s) + 1) : StartsWithAt(s, p, w)

\* The position after the longest run of digits that starts at p (p itself
\* when s[p] is no digit): what a greedy \d* consumes.
DigitRunEnd(s, p) ==
    CHOOSE q \in p..(Len(s) + 1) :
        /\ \A k \in p..(q - 1) : IsDigit(s[k])
        /\ q = Len(s) + 1 \/ ~IsDigit(s[q])

\* str.split(sep), sep one character
RECURSIVE split(_, _)
split(s, sep) ==
    IF ~Has(s, sep) THEN <<s>>
    ELSE LET i == CHOOSE k \in 1..Len(s) :
                      s[k] = sep /\ \A j \in 1..(k - 1) : s[j] # sep
         IN  <<SubSeq(s, 1, i - 1)>> \o split(SubSeq(s, i + 1, Len(s)), sep)

\* str.lstrip('v'): every leading "v" goes, not only the first.
RECURSIVE lstrip_v(_)
lstrip_v(s) ==
    IF s # <<>> /\ s[1] = "v" THEN lstrip_v(Tail(s)) ELSE s

----------------------------------------------------------------------------
(* Regular expression matching, as positions: a piece matched from         *)
(* position p returns the position after it, and 0 when it does not match. *)

\* a literal
Lit(s, p, w) == IF p # 0 /\ StartsWithAt(s, p, w) THEN p + Len(w) ELSE 0

\* \d+
Num(s, p) == IF p # 0 /\ DigitRunEnd(s, p) > p THEN DigitRunEnd(s, p) ELSE 0

\* ( ... )?  greedy: the group is taken when it matched at p.
Opt(p, q) == IF q # 0 THEN q ELSE p

\* $ (a tag name holds no line break)
AtEnd(s, p) == p = Len(s) + 1

----------------------------------------------------------------------------
(* The two definitions of is_stable_kubernetes_tag.                        *)

\* The substrings the first definition scans for.
UnstableWords ==
    { <<"r", "c">>, <<"a", "l", "p", "h", "a">>, <<"b", "e", "t", "a">>, <<"d", "e", "v">>, <<"t", "e", "s", "t">>, <<"c", "i">>, <<"d", "e", "b", "u", "g">>, <<"l", "a", "t", "e", "s", "t">> }

\* re.match(_STABLE_SUFFIX, tag):  ^v\d+\.\d+\.\d+(-k3s\d+)?(-rancher\d+)?$
_STABLE_SUFFIX(tag) ==
    LET a == Num(tag, Lit(tag, 1, <<"v">>))
        b == Num(tag, Lit(tag, a, <<".">>))
        c == Num(tag, Lit(tag, b, <<".">>))
        d == Opt(c, Num(tag, Lit(tag, c, <<"-", "k", "3", "s">>)))
        e == Opt(d, Num(tag, Lit(tag, d, <<"-", "r", "a", "n", "c", "h", "e", "r">>)))
    IN  AtEnd(tag, e)

\* The definition of line 46, the one bound while line 89 runs.
is_stable_kubernetes_tag_first(tag) ==
    LET t == lower(tag)
    IN  IF \E x \in UnstableWords : Contains(t, x)
        THEN FALSE
        ELSE _STABLE_SUFFIX(t)

\* The alternatives of UNSTABLE_PATTERN.
UnstableMarkers ==
    { <<"a", "l", "p", "h", "a">>, <<"b", "e", "t", "a">>, <<"r", "c">>, <<"d", "e", "v">>, <<"t", "e", "s", "t">>, <<"c", "i">>, <<"d", "e", "b", "u", "g">> }

\* UNSTABLE_PATTERN.search(tag):  -(alpha|beta|rc|dev|test|ci|debug)\d*
\* anywhere in the tag; \d* also matches no digit and nothing anchors the
\* end of the match, so a hyphen followed by a marker is all it takes.
UNSTABLE_PATTERN(tag) ==
    \E p \in 1..Len(tag) : \E m \in UnstableMarkers :
        LET q == Lit(tag, p, <<"-">> \o m)
        IN  q # 0 /\ DigitRunEnd(tag, q) >= q

\* Mutant of StableShape: the pattern without its closing $.
StableShapeNoEnd(tag) ==
    LET a == Num(tag, Opt(1, Lit(tag, 1, <<"v">>)))
    IN  a # 0

\* re.match(r'^v?\d+(\.\d+){0,2}(-k3s\d+)?(-rancher\d+)?$', tag)
StableShape(tag) ==
    LET a == Num(tag, Opt(1, Lit(tag, 1, <<"v">>)))
        b == Opt(a, Num(tag, Lit(tag, a, <<".">>)))
        c == Opt(b, Num(tag, Lit(tag, b, <<".">>)))
        d == Opt(c, Num(tag, Lit(tag, c, <<"-", "k", "3", "s">>)))
        e == Opt(d, Num(tag, Lit(tag, d, <<"-", "r", "a", "n", "c", "h", "e", "r">>)))
    IN  AtEnd(tag, e)

\* The definition of line 97, bound from then on.
is_stable_kubernetes_tag(tag) ==
    LET t == lower(tag)
    IN  IF UNSTABLE_PATTERN(t) \/ t = <<"l", "a", "t", "e", "s", "t">>
        THEN FALSE
        ELSE StableShape(t)

----------------------------------------------------------------------------
(* packaging.version.Version, as far as a tag name can reach it: a tag     *)
(* name holds no "!" (epoch), no "+" (local version) and no white space.   *)
(* A Version is modelled by its comparison key, which is all that ==, <    *)
(* and > of Version read.                                                  *)
(*                                                                         *)
(*   v? release pre? post? dev?              (re.IGNORECASE)               *)
(*   release  [0-9]+(\.[0-9]+)*                                            *)
(*   pre      [-_\.]?(alpha|a|beta|b|preview|pre|c|rc)[-_\.]?[0-9]*        *)
(*   post     -[0-9]+ | [-_\.]?(post|rev|r)[-_\.]?[0-9]*                   *)
(*   dev      [-_\.]?dev[-_\.]?[0-9]*                                      *)

\* [-_\.]
Separators == {"-", "_", "."}

\* The pre-release spellings with the rank of the letter each normalises
\* to: a < b < rc.
PreWords ==
    { <<<<"a", "l", "p", "h", "a">>, 1>>, <<<<"a">>, 1>>, <<<<"b", "e", "t", "a">>, 2>>, <<<<"b">>, 2>>,
      <<<<"p", "r", "e", "v", "i", "e", "w">>, 3>>, <<<<"p", "r", "e">>, 3>>, <<<<"c">>, 3>>, <<<<"r", "c">>, 3>> }

PostWords == { <<<<"p", "o", "s", "t">>, 0>>, <<<<"r", "e", "v">>, 0>>, <<<<"r">>, 0>> }

DevWords == { <<<<"d", "e", "v">>, 0>> }

\* Every way  [-_\.]? word [-_\.]? [0-9]*  matches at p, for the words of
\* `words`: the rank of the word, the number (0 when absent) and the
\* position after the match.
MarkerMatches(s, p, words) ==
    LET starts == {p} \cup (IF p <= Len(s) /\ s[p] \in Separators THEN {p + 1} ELSE {})
        after(q) == {q} \cup (IF q <= Len(s) /\ s[q] \in Separators THEN {q + 1} ELSE {})
    IN  UNION { UNION { UNION {
            {[rank |-> w[2], n |-> 0, end |-> d]}
            \cup (IF DigitRunEnd(s, d) > d
                  THEN {[rank |-> w[2],
                         n |-> int(SubSeq(s, d, DigitRunEnd(s, d) - 1)),
                         end |-> DigitRunEnd(s, d)]}
                  ELSE {})
            : d \in after(Lit(s, p1, w[1])) }
          : p1 \in {x \in starts : Lit(s, x, w[1]) # 0} }
        : w \in words }

\* The release numbers from position p on, and the position after them.
RECURSIVE Release(_, _)
Release(s, p) ==
    LET q == DigitRunEnd(s, p)
        n == int(SubSeq(s, p, q - 1))
    IN  IF q + 1 <= Len(s) /\ s[q] = "." /\ IsDigit(s[q + 1])
        THEN LET r == Release(s, q + 1)
             IN  [nums |-> <<n>> \o r.nums, end |-> r.end]
        ELSE [nums |-> <<n>>, end |-> q]

\* _cmpkey drops the trailing zeros of the release: 1.28 == 1.28.0.
RECURSIVE DropTrailingZeros(_)
DropTrailingZeros(nums) ==
    IF nums # <<>> /\ nums[Len(nums)] = 0
    THEN DropTrailingZeros(SubSeq(nums, 1, Len(nums) - 1))
    ELSE nums

InvalidVersion == [valid |-> FALSE, release |-> <<>>, pre |-> <<>>, post |-> <<>>, dev |-> <<>>]

\* The parts of the key after the release, as _cmpkey orders them. pre, post
\* and dev are <<>> when absent and <<number>> / <<rank, number>> when present.
\*   pre:  -infinity for a dev release with no pre and no post,
\*         +infinity for one with no pre otherwise, else (letter, number)
\*   post: -infinity when absent, else number
\*   dev:  +infinity when absent, else number
CmpKey(release, pre, post, dev) ==
    [valid   |-> TRUE,
     release |-> DropTrailingZeros(release),
     pre     |-> IF pre = <<>> /\ post = <<>> /\ dev # <<>> THEN <<0>>
                 ELSE IF pre = <<>> THEN <<2>>
                 ELSE <<1>> \o pre,
     post    |-> IF post = <<>> THEN <<0>> ELSE <<1>> \o post,
     dev     |-> IF dev = <<>> THEN <<1>> ELSE <<0>> \o dev]

\* Version(s): the key of s, or InvalidVersion where Version raises.
Version(s) ==
    LET t  == lower(s)
        p0 == Opt(1, Lit(t, 1, <<"v">>))
    IN  IF Num(t, p0) = 0 THEN InvalidVersion
        ELSE
        LET rel   == Release(t, p0)
            pres  == {[v |-> <<>>, end |-> rel.end]}
                     \cup {[v |-> <<m.rank, m.n>>, end |-> m.end] :
                              m \in MarkerMatches(t, rel.end, PreWords)}
            posts(p) == {[v |-> <<>>, end |-> p]}
                     \cup {[v |-> <<m.n>>, end |-> m.end] :
                              m \in MarkerMatches(t, p, PostWords)}
                     \cup (IF Num(t, Lit(t, p, <<"-">>)) # 0
                           THEN {[v |-> <<int(SubSeq(t, p + 1, DigitRunEnd(t, p + 1) - 1))>>,
                                  end |-> DigitRunEnd(t, p + 1)]}
                           ELSE {})
            devs(p) == {[v |-> <<>>, end |-> p]}
                     \cup {[v |-> <<m.n>>, end |-> m.end] :
                              m \in MarkerMatches(t, p, DevWords)}
            keys  == UNION { UNION {
                         {CmpKey(rel.nums, a.v, b.v, c.v) :
                              c \in {x \in devs(b.end) : AtEnd(t, x.end)}}
                       : b \in posts(a.end) } : a \in pres }
        IN  IF keys = {} THEN InvalidVersion ELSE CHOOSE k \in keys : TRUE

\* < of two tuples of integers: the first position that differs decides, a
\* proper prefix is less.
RECURSIVE IntsLt(_, _)
IntsLt(x, y) ==
    IF y = <<>> THEN FALSE
    ELSE IF x = <<>> THEN TRUE
    ELSE IF x[1] # y[1] THEN x[1] < y[1]
    ELSE IntsLt(Tail(x), Tail(y))

\* Version.__lt__: the keys compared as tuples.
VersionLt(a, b) ==
    IF a.release # b.release THEN IntsLt(a.release, b.release)
    ELSE IF a.pre # b.pre THEN IntsLt(a.pre, b.pre)
    ELSE IF a.post # b.post THEN IntsLt(a.post, b.post)
    ELSE IntsLt(a.dev, b.dev)

----------------------------------------------------------------------------
(* class DockerVersion                                                     *)

\* _parse_version: the Version of the part before the first hyphen, its
\* leading "v"s stripped; InvalidVersion stands for the ValueError.
_parse_version(tag) == Version(lstrip_v(split(tag, "-")[1]))

\* The position after the longest run of [a-z] that starts at p.
LowerRunEnd(s, p) ==
    CHOOSE q \in p..(Len(s) + 1) :
        /\ \A k \in p..(q - 1) : IsLower(s[k])
        /\ q = Len(s) + 1 \/ ~IsLower(s[q])

\* re.match(_VERSION_SUFFIX, part):  ([a-z]+)(\d+)  at the start of the part,
\* nothing anchoring its end. The letters are the run of [a-z] the part
\* starts with; a digit must follow it at once.
_VERSION_SUFFIX(part) ==
    LET q == LowerRunEnd(part, 1)
    IN  IF q > 1 /\ Num(part, q) # 0
        THEN <<  <<SubSeq(part, 1, q - 1), int(SubSeq(part, q, Num(part, q) - 1))>>  >>
        ELSE <<>>

\* The (name, number) pairs of the parts that match, in order.
RECURSIVE SuffixOf(_)
SuffixOf(parts) ==
    IF parts = <<>> THEN <<>>
    ELSE _VERSION_SUFFIX(parts[1]) \o SuffixOf(Tail(parts))

_parse_suffix(tag) == SuffixOf(Tail(split(tag, "-")))

\* DockerVersion(tag); constructed only when _parse_version did not raise.
DockerVersion(tag) ==
    [original |-> tag, version |-> _parse_version(tag), suffix |-> _parse_suffix(tag)]

\* Whether DockerVersion(tag) raises ValueError.
Raises(tag) == ~_parse_version(tag).valid

\* str < str
RECURSIVE StrLt(_, _)
StrLt(x, y) ==
    IF y = <<>> THEN FALSE
    ELSE IF x = <<>> THEN TRUE
    ELSE IF x[1] # y[1] THEN ord(x[1]) < ord(y[1])
    ELSE StrLt(Tail(x), Tail(y))

\* (name, number) < (name, number)
PairLt(a, b) == IF a[1] # b[1] THEN StrLt(a[1], b[1]) ELSE a[2] < b[2]

\* tuple < tuple of the suffixes
RECURSIVE SuffixLt(_, _)
SuffixLt(x, y) ==
    IF y = <<>> THEN FALSE
    ELSE IF x = <<>> THEN TRUE
    ELSE IF x[1] # y[1] THEN PairLt(x[1], y[1])
    ELSE SuffixLt(Tail(x), Tail(y))

\* DockerVersion.__lt__
__lt__(self, other) ==
    IF self.version # other.version
    THEN VersionLt(self.version, other.version)
    ELSE SuffixLt(self.suffix, other.suffix)

\* Mutant of __eq__: the original string compared too.
EqWithOriginal(self, other) ==
    /\ self.version = other.version
    /\ self.suffix = other.suffix
    /\ self.original = other.original

\* DockerVersion.__eq__
__eq__(self, other) ==
    self.version = other.version /\ self.suffix = other.suffix

\* > as functools.total_ordering derives it from __lt__ and __eq__.
__gt__(self, other) == ~__lt__(self, other) /\ ~__eq__(self, other)

\* Mutant of InsertSorted: a sort that is not stable, a tag going before the
\* tags already placed that compare equal to it.
InsertBeforeEqual(placed, tag) ==
    LET later == {i \in 1..Len(placed) :
                     ~__lt__(DockerVersion(placed[i]), DockerVersion(tag))}
        at    == IF later = {} THEN Len(placed) + 1
                 ELSE CHOOSE i \in later : \A j \in later : i <= j
    IN  SubSeq(placed, 1, at - 1) \o <<tag>> \o SubSeq(placed, at, Len(placed))

\* sorted(tags, key=DockerVersion): a stable sort, so each tag goes before
\* the first tag already placed whose key is greater than its own.
InsertSorted(placed, tag) ==
    LET later == {i \in 1..Len(placed) :
                     __lt__(DockerVersion(tag), DockerVersion(placed[i]))}
        at    == IF later = {} THEN Len(placed) + 1
                 ELSE CHOOSE i \in later : \A j \in later : i <= j
    IN  SubSeq(placed, 1, at - 1) \o <<tag>> \o SubSeq(placed, at, Len(placed))

RECURSIVE sorted(_)
sorted(tags) ==
    IF tags = <<>> THEN <<>>
    ELSE InsertSorted(sorted(SubSeq(tags, 1, Len(tags) - 1)), tags[Len(tags)])

----------------------------------------------------------------------------
(* The run of find_newer_tags over get_tags.                               *)

\* Bounds of the model: the pages a registry serves before its last one, and
\* the names on one page (page_size, scaled down).
MaxPages == 2

MaxResults == 2

\* base_tag of line 87
ExampleBase == <<"v", "1", ".", "2", "7", ".", "2", "-", "k", "3", "s", "1">>

\* The repositories of the model: a repository holds each tag name once.
RepoReleases ==
    { <<"v", "1", ".", "2", "7", ".", "2", "-", "k", "3", "s", "1">>, <<"v", "1", ".", "2", "7", ".", "3", "-", "k", "3", "s", "1">>, <<"v", "1", ".", "2", "7", ".", "3", "-", "k", "3", "s", "1", "-", "r", "c", "1">>, <<"v", "1", ".", "2", "7", ".", "1", "-", "k", "3", "s", "1">>,
      <<"v", "1", ".", "2", "8", ".", "0", "-", "k", "3", "s", "1", "-", "r", "a", "n", "c", "h", "e", "r", "2">> }

RepoMixed ==
    { <<"v", "1", ".", "2", "7", ".", "2", "-", "k", "3", "s", "2">>, <<"1", ".", "2", "7", ".", "2", "-", "k", "3", "s", "1">>, <<"V", "1", ".", "2", "8", ".", "0">>, <<"1", ".", "2", "8">>, <<"l", "a", "t", "e", "s", "t">> }

Repos == { RepoReleases, RepoMixed }

\* The base tags find_newer_tags is called with once the module is loaded.
BaseTags == { ExampleBase, <<"v", "1", ".", "2", "7", ".", "2">>, <<"v", "1", ".", "2", "8", "r", "c", "1">>, <<"l", "a", "t", "e", "s", "t">> }

\* DockerVersion not constructed (yet).
NoVersion == [original |-> <<>>, version |-> InvalidVersion, suffix |-> <<>>]

NoData == [results |-> <<>>, next |-> FALSE]

\* The sequences of at most n different elements of S.
Listings(S, n) ==
    {s \in UNION {[1..k -> S] : k \in 0..n} :
        \A i, j \in 1..Len(s) : i # j => s[i] # s[j]}

\* What the registry may answer to the request of page `page`: up to
\* MaxResults names it has not served yet, and whether a next page exists.
\* The last page the model allows is a last page.
Responses ==
    {[results |-> r, next |-> n] :
        r \in Listings(repo \ {yielded[i] : i \in 1..Len(yielded)}, MaxResults),
        n \in IF page < MaxPages THEN BOOLEAN ELSE {FALSE}}

\* is_stable_kubernetes_tag(tag), by the definition the name is bound to.
is_stable_bound(tag) ==
    IF binding = 46 THEN is_stable_kubernetes_tag_first(tag)
    ELSE is_stable_kubernetes_tag(tag)

\* Mutant of LoopBody: >= for >.
LoopBodyNotLess(tag) ==
    IF ~is_stable_bound(tag) THEN newer_tags
    ELSE IF Raises(tag) THEN newer_tags
    ELSE IF ~__lt__(DockerVersion(tag), base)
         THEN Append(newer_tags, DockerVersion(tag).original)
         ELSE newer_tags

\* Lines 75-82, the body of the for loop: newer_tags after `tag`.
LoopBody(tag) ==
    IF ~is_stable_bound(tag) THEN newer_tags
    ELSE IF Raises(tag) THEN newer_tags
    ELSE IF __gt__(DockerVersion(tag), base)
         THEN Append(newer_tags, DockerVersion(tag).original)
         ELSE newer_tags

\* get_tags is exhausted and the for loop over it ends: find_newer_tags
\* returns the sorted list (line 83); get_tags drained on its own is done.
Return(tags) ==
    /\ result' = IF fn = "find_newer_tags" THEN sorted(tags) ELSE result
    /\ pc' = "done"

\* What the for loop does with a name get_tags yields: the body of lines
\* 75-82 in find_newer_tags, nothing when get_tags is drained on its own.
Consume(tag) == IF fn = "find_newer_tags" THEN LoopBody(tag) ELSE newer_tags

\* Mutant of Start: the ValueError of the base caught like a candidate's.
StartSwallows ==
    /\ pc = "start"
    /\ base' = IF Raises(base_tag) THEN NoVersion ELSE DockerVersion(base_tag)
    /\ page' = 1
    /\ pc' = "request"
    /\ UNCHANGED <<binding, repo, base_tag, data, idx, requests, served, yielded,
                   newer_tags, result, err, fn, args, ret>>

\* Lines 71-74: the base is parsed first; ValueError propagates. get_tags(image)
\* only creates the generator: nothing of its body has run yet.
Start ==
    /\ pc = "start"
    /\ IF Raises(base_tag)
       THEN /\ err' = "ValueError"
            /\ pc' = "failed"
            /\ UNCHANGED <<base, page>>
       ELSE /\ base' = DockerVersion(base_tag)
            /\ page' = 1
            /\ pc' = "request"
            /\ UNCHANGED err
    /\ UNCHANGED <<binding, repo, base_tag, data, idx, requests, served, yielded,
                   newer_tags, result, fn, args, ret>>

\* Lines 57-59: the request of a page fails; raise_for_status raises and the
\* error ends get_tags and find_newer_tags.
RequestFails ==
    /\ pc = "request"
    /\ page <= MaxPages
    /\ requests' = Append(requests, page)
    /\ err' = "HTTPError"
    /\ pc' = "failed"
    /\ UNCHANGED <<binding, repo, base_tag, base, page, data, idx, served, yielded,
                   newer_tags, result, fn, args, ret>>

\* Lines 57-63: a page is requested and served; no results ends get_tags.
RequestPage ==
    /\ pc = "request"
    /\ page <= MaxPages
    /\ \E resp \in Responses :
        /\ requests' = Append(requests, page)
        /\ served' = Append(served, resp)
        /\ data' = resp
        /\ idx' = 1
        /\ IF resp.results = <<>>
           THEN Return(newer_tags)
           ELSE pc' = "yield" /\ UNCHANGED result
    /\ UNCHANGED <<binding, repo, base_tag, base, page, yielded, newer_tags, err,
                   fn, args, ret>>

\* Mutant of YieldTag: page += 1 forgotten.
YieldTagSamePage ==
    /\ pc = "yield"
    /\ LET tag == data.results[idx]
       IN  /\ yielded' = Append(yielded, tag)
           /\ newer_tags' = Consume(tag)
           /\ IF idx < Len(data.results)
              THEN idx' = idx + 1 /\ UNCHANGED <<pc, page, result>>
              ELSE IF ~data.next
              THEN Return(Consume(tag)) /\ UNCHANGED <<idx, page>>
              ELSE pc' = "request" /\ UNCHANGED <<idx, page, result>>
    /\ UNCHANGED <<binding, repo, base_tag, base, data, requests, served, err,
                   fn, args, ret>>

\* Lines 64-68 and 75-82: the next name of the page is yielded and the loop
\* body runs on it; after the last name of a page, get_tags ends when the
\* response had no next and moves to the next page otherwise.
YieldTag ==
    /\ pc = "yield"
    /\ LET tag == data.results[idx]
       IN  /\ yielded' = Append(yielded, tag)
           /\ newer_tags' = Consume(tag)
           /\ IF idx < Len(data.results)
              THEN idx' = idx + 1 /\ UNCHANGED <<pc, page, result>>
              ELSE IF ~data.next
              THEN Return(Consume(tag)) /\ UNCHANGED <<idx, page>>
              ELSE page' = page + 1 /\ pc' = "request" /\ UNCHANGED <<idx, result>>
    /\ UNCHANGED <<binding, repo, base_tag, base, data, requests, served, err,
                   fn, args, ret>>

\* A run is the call of line 89, made while the first definition of
\* is_stable_kubernetes_tag is the one bound, or a call made once the module
\* is loaded, when the second is.
Init ==
    /\ pc = "start"
    /\ \/ binding = 46 /\ base_tag = ExampleBase
       \/ binding = 97 /\ base_tag \in BaseTags
    /\ repo \in Repos
    /\ base = NoVersion
    /\ page = 0
    /\ data = NoData
    /\ idx = 0
    /\ requests = <<>>
    /\ served = <<>>
    /\ yielded = <<>>
    /\ newer_tags = <<>>
    /\ result = <<>>
    /\ err = "none"
    /\ fn = "find_newer_tags"
    /\ args = <<>>
    /\ ret = <<>>

Next == Start \/ RequestFails \/ RequestPage \/ YieldTag

Spec == Init /\ [][Next]_vars

\* get_tags(image) on its own, drained by a for loop: the state at the first
\* next() of the generator.
InitTags ==
    /\ pc = "request"
    /\ binding = 97
    /\ repo \in Repos
    /\ base_tag = <<>>
    /\ base = NoVersion
    /\ page = 1
    /\ data = NoData
    /\ idx = 0
    /\ requests = <<>>
    /\ served = <<>>
    /\ yielded = <<>>
    /\ newer_tags = <<>>
    /\ result = <<>>
    /\ err = "none"
    /\ fn = "get_tags"
    /\ args = <<>>
    /\ ret = <<>>

NextTags == RequestFails \/ RequestPage \/ YieldTag

\* The interpreter runs the one thread to its end, and every request is
\* answered, by a page or by an error.
LiveSpec == InitTags /\ [][NextTags]_vars /\ WF_vars(NextTags)

----------------------------------------------------------------------------
(* The units called on their own, the module loaded: is_stable_kubernetes_ *)
(* tag (as its test calls it) and DockerVersion, on one tag; and the       *)
(* comparisons of DockerVersion on three.                                  *)

\* The tags of test_is_stable_kubernetes_tag, with the value each expects.
TestTable ==
    { <<<<"v", "1", ".", "2", ".", "3">>, TRUE>>, <<<<"1", ".", "2", ".", "3">>, TRUE>>, <<<<"v", "1", ".", "2", ".", "3", "-", "k", "3", "s", "1">>, TRUE>>,
      <<<<"v", "1", ".", "2", ".", "3", "-", "k", "3", "s", "1", "-", "r", "a", "n", "c", "h", "e", "r", "2">>, TRUE>>, <<<<"v", "1">>, TRUE>>, <<<<"1">>, TRUE>>,
      <<<<"1", ".", "2">>, TRUE>>,
      <<<<"v", "1", ".", "2", ".", "3", "-", "a", "l", "p", "h", "a", "1">>, FALSE>>, <<<<"v", "1", ".", "2", ".", "3", "-", "b", "e", "t", "a">>, FALSE>>,
      <<<<"v", "1", ".", "2", ".", "3", "-", "r", "c", "1">>, FALSE>>, <<<<"v", "1", ".", "2", ".", "3", "-", "d", "e", "v">>, FALSE>>, <<<<"v", "1", ".", "2", ".", "3", "-", "c", "i">>, FALSE>>,
      <<<<"v", "1", ".", "2", ".", "3", "-", "t", "e", "s", "t", "1">>, FALSE>>, <<<<"v", "1", ".", "2", ".", "3", "-", "d", "e", "b", "u", "g">>, FALSE>>, <<<<"l", "a", "t", "e", "s", "t">>, FALSE>>,
      <<<<"v", "1", ".", "2", ".", "3", "-", "a", "r", "c", "h", "i", "t", "e", "c", "t", "u", "r", "e">>, TRUE>>, <<<<"v", "1", ".", "2", ".", "3", "-", "r", "c", "t", "e", "s", "t">>, TRUE>>,
      <<<<"v", "1", ".", "2", ".", "3", "f", "o", "o">>, FALSE>>, <<<<"g", "a", "r", "b", "a", "g", "e">>, FALSE>> }

\* More tags: other cases, suffix orders, cores of every kind.
MoreTags ==
    { <<"V", "1", ".", "2", ".", "3", "-", "K", "3", "S", "1">>, <<"L", "a", "t", "e", "s", "t">>, <<"v", "1", ".", "2", ".", "3", "-", "R", "C", "1">>, <<"v", "1", ".", "2", ".", "3", "-", "r", "a", "n", "c", "h", "e", "r", "2", "-", "k", "3", "s", "1">>,
      <<"v", "1", ".", "2", ".", "3", "-", "k", "3", "s", "1", "-", "k", "3", "s", "2">>, <<"v", "1", ".", "2", ".", "3", "-", "k", "3", "s">>, <<"v", "1", ".", "2", ".", "3", "-", "k", "3", "s", "1", "x">>, <<"v", "1", ".", "2", ".", "3", "-">>,
      <<"v", "1", ".", "2", ".", "3", "-", "x", "-", "k", "3", "s", "1">>, <<"v", "1", ".", "2", ".", "3", "-", "k", "3", "s", "1", "0", "-", "r", "a", "n", "c", "h", "e", "r", "1", "2">>, <<"v", "1", ".", "2", ".", "3", "-", "m", "a", "r", "c", "1">>,
      <<"1", ".", "2", ".", "3", ".", "4">>, <<"v", "1", ".", "2", ".", "3", ".", "4", "-", "k", "3", "s", "1">>, <<"v", "v", "1", ".", "2", ".", "3">>, <<"V", "v", "1", ".", "2", ".", "3">>, <<"v", "V", "1", ".", "2", ".", "3">>,
      <<"1", ".", "2", ".", "3", "r", "c", "1">>, <<"1", ".", "2", ".", "3", "a">>, <<"1", ".", "2", ".", "3", ".", "p", "o", "s", "t", "1">>, <<"1", ".", "2", ".", "3", "_", "d", "e", "v">>, <<"1", ".", "2", ".", "3", "r">>,
      <<"1", ".", ".", "2">>, <<"1", ".">>, <<".", "1">>, <<"v">>, <<>>, <<"-", "k", "3", "s", "1">>, <<"v", "-", "k", "3", "s", "1">>, <<"1", ".", "x", ".", "3">>,
      <<"v", "1", ".", "2", "7", ".", "2", "-", "k", "3", "s", "1">>, <<"v", "1", ".", "2", "7", ".", "2", "-", "k", "3", "s", "2">> }

\* Short tags of every make: all the strings of at most MaxPieces pieces.
Pieces == { <<"v">>, <<"V">>, <<"1">>, <<".">>, <<"-", "k", "3", "s">>, <<"-", "r", "a", "n", "c", "h", "e", "r">>, <<"-", "r", "c">>, <<"r", "c">> }

MaxPieces == 4

RECURSIVE Join(_)
Join(parts) == IF parts = <<>> THEN <<>> ELSE parts[1] \o Join(Tail(parts))

UnitTags ==
    {t[1] : t \in TestTable} \cup MoreTags
    \cup {Join(ps) : ps \in UNION {[1..k -> Pieces] : k \in 0..MaxPieces}}

\* The tags compared with each other.
OrderTags ==
    { <<"v", "1", ".", "2", "7", ".", "2", "-", "k", "3", "s", "1">>, <<"v", "1", ".", "2", "7", ".", "2", "-", "k", "3", "s", "2">>, <<"1", ".", "2", "7", ".", "2", "-", "k", "3", "s", "1">>, <<"v", "1", ".", "2", "7", ".", "2">>, <<"v", "1", ".", "2", "7", ".", "1", "0">>,
      <<"v", "1", ".", "2", "8", ".", "0">>, <<"1", ".", "2", "8">>, <<"v", "1", ".", "2", "8", "r", "c", "1">>, <<"v", "1", ".", "2", "7", ".", "2", "-", "r", "a", "n", "c", "h", "e", "r", "1">>,
      <<"v", "1", ".", "2", "7", ".", "2", "-", "k", "3", "s", "1", "-", "r", "a", "n", "c", "h", "e", "r", "2">>, <<"v", "1", ".", "2", "7", ".", "2", "-", "k", "4", "s", "1">>, <<"l", "a", "t", "e", "s", "t">> }

InitUnit(tagses) ==
    /\ pc = "call"
    /\ args \in tagses
    /\ binding = 97
    /\ repo = {}
    /\ base_tag = <<>>
    /\ base = NoVersion
    /\ page = 0
    /\ data = NoData
    /\ idx = 0
    /\ requests = <<>>
    /\ served = <<>>
    /\ yielded = <<>>
    /\ newer_tags = <<>>
    /\ result = <<>>
    /\ err = "none"
    /\ fn = "none"
    /\ ret = <<>>

UnchangedRun ==
    UNCHANGED <<binding, repo, base_tag, base, page, data, idx, requests, served,
                yielded, newer_tags, result, args>>

\* is_stable_kubernetes_tag(tag)
CallIsStable ==
    /\ pc = "call"
    /\ fn' = "is_stable_kubernetes_tag"
    /\ ret' = is_stable_bound(args[1])
    /\ pc' = "ret"
    /\ UNCHANGED err
    /\ UnchangedRun

\* DockerVersion(tag): __init__, which raises ValueError where
\* _parse_version does and sets the three attributes otherwise.
CallDockerVersion ==
    /\ pc = "call"
    /\ fn' = "DockerVersion"
    /\ IF Raises(args[1])
       THEN err' = "ValueError" /\ pc' = "failed" /\ UNCHANGED ret
       ELSE ret' = DockerVersion(args[1]) /\ pc' = "ret" /\ UNCHANGED err
    /\ UnchangedRun

InitUnitTag == InitUnit({<<t>> : t \in UnitTags})

UnitNext == CallIsStable \/ CallDockerVersion

UnitSpec == InitUnitTag /\ [][UnitNext]_vars

\* Three DockerVersions are constructed, ...
Construct ==
    /\ pc = "call"
    /\ fn' = "DockerVersion"
    /\ IF \E i \in 1..Len(args) : Raises(args[i])
       THEN err' = "ValueError" /\ pc' = "failed" /\ UNCHANGED ret
       ELSE /\ ret' = [i \in 1..Len(args) |-> DockerVersion(args[i])]
            /\ pc' = "built"
            /\ UNCHANGED err
    /\ UnchangedRun

\* ... and compared each with each: <, == and the > of total_ordering.
Compare ==
    /\ pc = "built"
    /\ fn' = "compare"
    /\ ret' = [v  |-> ret,
               lt |-> [i \in 1..Len(ret) |-> [j \in 1..Len(ret) |-> __lt__(ret[i], ret[j])]],
               eq |-> [i \in 1..Len(ret) |-> [j \in 1..Len(ret) |-> __eq__(ret[i], ret[j])]],
               gt |-> [i \in 1..Len(ret) |-> [j \in 1..Len(ret) |-> __gt__(ret[i], ret[j])]]]
    /\ pc' = "ret"
    /\ UNCHANGED err
    /\ UnchangedRun

InitOrder == InitUnit({<<a, b, c>> : a \in OrderTags, b \in OrderTags, c \in OrderTags})

OrderNext == Construct \/ Compare

OrderSpec == InitOrder /\ [][OrderNext]_vars

----------------------------------------------------------------------------
(* The claims. What a claim says of a tag is stated here on the tag's      *)
(* hyphen-delimited segments, apart from the code's patterns.              *)

\* A non-negative integer in digits.
IsNumber(s) == s # <<>> /\ \A i \in 1..Len(s) : IsDigit(s[i])

\* lo to hi dot-separated non-negative integers.
DottedRun(s, lo, hi) ==
    LET c == split(s, ".")
    IN  Len(c) \in lo..hi /\ \A i \in 1..Len(c) : IsNumber(c[i])

\* s without one optional leading v.
OptionalV(s) == IF s # <<>> /\ s[1] = "v" THEN Tail(s) ELSE s

\* The segment is word<N>.
WordNumber(seg, word) ==
    /\ Len(seg) > Len(word)
    /\ SubSeq(seg, 1, Len(word)) = word
    /\ IsNumber(SubSeq(seg, Len(word) + 1, Len(seg)))

\* An unstable marker segment: a marker, optionally followed by digits.
MarkerSegment(seg) == \E m \in UnstableMarkers : seg = m \/ WordNumber(seg, m)

\* The classification the specification gives a tag.
ClaimStable(tag) ==
    LET t    == lower(tag)
        segs == split(t, "-")
        rest == Tail(segs)
    IN  /\ t # <<"l", "a", "t", "e", "s", "t">>
        /\ ~\E i \in 1..Len(rest) : MarkerSegment(rest[i])
        /\ DottedRun(OptionalV(segs[1]), 1, 3)
        /\ \/ rest = <<>>
           \/ Len(rest) = 1 /\ WordNumber(rest[1], <<"k", "3", "s">>)
           \/ Len(rest) = 1 /\ WordNumber(rest[1], <<"r", "a", "n", "c", "h", "e", "r">>)
           \/ Len(rest) = 2 /\ WordNumber(rest[1], <<"k", "3", "s">>) /\ WordNumber(rest[2], <<"r", "a", "n", "c", "h", "e", "r">>)

\* The (label, number) pair the specification reads off a segment: the number
\* is the run of digits the segment ends with, the label all that precedes it.
ClaimPair(seg) ==
    LET p == CHOOSE q \in 1..(Len(seg) + 1) :
                 /\ \A k \in q..Len(seg) : IsDigit(seg[k])
                 /\ q = 1 \/ ~IsDigit(seg[q - 1])
    IN  IF p > 1 /\ p <= Len(seg) /\ IsLower(seg[1])
        THEN << <<SubSeq(seg, 1, p - 1), int(SubSeq(seg, p, Len(seg)))>> >>
        ELSE <<>>

RECURSIVE ClaimSuffixOf(_)
ClaimSuffixOf(parts) ==
    IF parts = <<>> THEN <<>>
    ELSE ClaimPair(parts[1]) \o ClaimSuffixOf(Tail(parts))

ClaimSuffix(tag) == ClaimSuffixOf(Tail(split(tag, "-")))

\* a < b in the ordering of the specification: the cores, then the suffixes
\* as the specification reads them.
ClaimLess(a, b) ==
    IF _parse_version(a) # _parse_version(b)
    THEN VersionLt(_parse_version(a), _parse_version(b))
    ELSE SuffixLt(ClaimSuffix(a), ClaimSuffix(b))

Position(seq, x) == CHOOSE i \in 1..Len(seq) : seq[i] = x

\* C1: every tag of the source that is_stable_kubernetes_tag accepts, that
\* parses and that is strictly greater than the base in the ordering of the
\* specification (a -k3s<N> segment counting as ("k3s", N)) is in the list
\* find_newer_tags returns.
C1_Completeness ==
    pc = "done" =>
        \A i \in 1..Len(yielded) :
            ( /\ is_stable_bound(yielded[i])
              /\ ~Raises(yielded[i])
              /\ ClaimLess(base_tag, yielded[i]) )
            => Has(result, yielded[i])

\* C2: every tag find_newer_tags returns is a tag of the source, is stable,
\* and its version is strictly greater than the base's; the base tag, and a
\* tag that compares equal to it, is never returned.
C2_Soundness ==
    pc = "done" =>
        \A i \in 1..Len(result) :
            /\ Has(yielded, result[i])
            /\ is_stable_kubernetes_tag(result[i])
            /\ is_stable_bound(result[i])
            /\ ~Raises(result[i])
            /\ __lt__(DockerVersion(base_tag), DockerVersion(result[i]))
            /\ ~__eq__(DockerVersion(result[i]), DockerVersion(base_tag))
            /\ result[i] # base_tag

\* C2's case: a run that returned tags after the source produced the base
\* tag itself and an unstable tag.
C2_Witness ==
    /\ pc = "done"
    /\ result # <<>>
    /\ Has(yielded, base_tag)
    /\ \E i \in 1..Len(yielded) : ~is_stable_kubernetes_tag(yielded[i])

C4_SuffixPairs ==
    ( /\ pc = "ret"
      /\ fn = "DockerVersion"
      /\ \A i \in 2..Len(split(args[1], "-")) :
            \/ WordNumber(split(args[1], "-")[i], <<"k", "3", "s">>)
            \/ WordNumber(split(args[1], "-")[i], <<"r", "a", "n", "c", "h", "e", "r">>) )
    => ret.suffix = ClaimSuffix(args[1])

\* A word that holds a marker and is no marker segment: letters only, a
\* marker inside it or at its start, and more than the marker and digits.
MarkerInsideWord(seg) ==
    /\ seg # <<>>
    /\ \A i \in 1..Len(seg) : IsLower(seg[i])
    /\ \E m \in UnstableMarkers : Contains(seg, m)
    /\ ~MarkerSegment(seg)

\* C5: a tag made of a valid core and one segment that only holds a marker
\* inside a longer word is stable (v1.2.3-architecture, v1.2.3-rctest).
C5_MarkerInsideWordIsStable ==
    ( /\ pc = "ret"
      /\ fn = "is_stable_kubernetes_tag"
      /\ Len(split(lower(args[1]), "-")) = 2
      /\ DottedRun(OptionalV(split(lower(args[1]), "-")[1]), 1, 3)
      /\ MarkerInsideWord(split(lower(args[1]), "-")[2]) )
    => ret = TRUE

C7_ParsesExactly ==
    fn = "DockerVersion" =>
        IF DottedRun(OptionalV(split(args[1], "-")[1]), 1, 3)
        THEN pc = "ret" /\ err = "none" /\ ret.original = args[1]
        ELSE pc = "failed" /\ err = "ValueError"

\* C8: when the base tag does not parse, find_newer_tags ends with the
\* ValueError before anything is requested from the registry, taken from the
\* source or returned.
C8_InvalidBaseFailsFirst ==
    (pc # "start" /\ Raises(base_tag)) =>
        /\ pc = "failed"
        /\ err = "ValueError"
        /\ requests = <<>>
        /\ served = <<>>
        /\ yielded = <<>>
        /\ newer_tags = <<>>
        /\ result = <<>>

\* C8's case: a run ended by the ValueError of its base tag.
C8_Witness == pc = "failed" /\ err = "ValueError" /\ Raises(base_tag)

\* C9: <, == and > of DockerVersion are a total order: exactly one of them
\* holds of any two, a > b is b < a, < is transitive, a == a, and == is
\* the equality of the cores and the suffixes whatever the original strings.
C9_TotalOrder ==
    (pc = "ret" /\ fn = "compare") =>
        \A i, j, k \in 1..Len(ret.v) :
            /\ ret.lt[i][j] => ~ret.eq[i][j] /\ ~ret.gt[i][j]
            /\ ret.eq[i][j] => ~ret.gt[i][j]
            /\ ret.lt[i][j] \/ ret.eq[i][j] \/ ret.gt[i][j]
            /\ ret.gt[i][j] <=> ret.lt[j][i]
            /\ (ret.lt[i][j] /\ ret.lt[j][k]) => ret.lt[i][k]
            /\ ret.eq[i][i]
            /\ ret.eq[i][j] <=> ( /\ ret.v[i].version = ret.v[j].version
                                  /\ ret.v[i].suffix = ret.v[j].suffix )

\* C9's case: two versions of different original strings that compare equal,
\* both less than a third.
C9_Witness ==
    /\ pc = "ret"
    /\ fn = "compare"
    /\ ret.v[1].original # ret.v[2].original
    /\ ret.eq[1][2]
    /\ ret.lt[2][3]

\* The names of the pages served, in order.
PageNames(n) == Join([i \in 1..n |-> served[i].results])

LastPage(resp) == resp.results = <<>> \/ ~resp.next

\* What holds of get_tags at every moment: the pages are requested in the
\* order 1, 2, 3, ..., each once; every page but the last one served had
\* results and a next; the names yielded are those of the pages before the
\* last one served and the first names of that one, in order; a failed
\* request ends the run; and a run that ended without error ended on a last
\* page, with every name of every page yielded once.
PaginationInv ==
    /\ \A i \in 1..Len(requests) : requests[i] = i
    /\ \A i \in 1..(Len(served) - 1) : ~LastPage(served[i])
    /\ IF served = <<>> THEN yielded = <<>>
       ELSE \E n \in 0..Len(served[Len(served)].results) :
               yielded = PageNames(Len(served) - 1)
                         \o SubSeq(served[Len(served)].results, 1, n)
    /\ pc = "request" => Len(requests) = page - 1 /\ yielded = PageNames(Len(served))
    /\ IF err = "HTTPError"
       THEN /\ pc = "failed"
            /\ Len(requests) = Len(served) + 1
            /\ yielded = PageNames(Len(served))
       ELSE Len(requests) = Len(served)
    /\ pc = "done" =>
          /\ served # <<>>
          /\ LastPage(served[Len(served)])
          /\ yielded = PageNames(Len(served))

\* C10: get_tags walks the pages in order, yields each page's names before it
\* requests the next, stops at the first last page or failed request, and,
\* the registry serving a last page in the end, terminates.
C10_Pagination == []PaginationInv /\ <>(pc \in {"done", "failed"})

\* C10's case: a run over more than one page that ended on a last page.
C10_Witness == pc = "done" /\ Len(requests) >= 2 /\ Len(yielded) >= 3

====
